---------------------------- MODULE Spec2Model ----------------------------
(***************************************************************************)
(* A model of the `stability` crate's #[unstable] attribute macro:        *)
(*   src/src/lib.rs       the entry point `unstable(args, input)`          *)
(*   src/src/unstable.rs  UnstableAttribute {parse, crate_feature_name,    *)
(*                        expand} and the ItemLike trait with its impls    *)
(*                                                                         *)
(* One behaviour is one invocation of the macro on one annotated item,     *)
(* followed by the host compiler's evaluation of the emitted #[cfg]        *)
(* gates under one build configuration.                                    *)
(*                                                                         *)
(* Text (String) is a sequence of one-character strings, so that           *)
(* format!() is concatenation and "contains verbatim" is a search.         *)
(***************************************************************************)
EXTENDS Naturals, Sequences, FiniteSets

VARIABLES
    args,        \* the arguments syn::meta::parser has yet to read
    attributes,  \* the UnstableAttribute being filled in (lib.rs:112)
    input,       \* the parsed syn::Item (None until lib.rs:116 parses it)
    output,      \* the items of the returned TokenStream, each with the
                 \* outer attributes quote! put before it
    error,       \* "none", "panic" or "compile_error"
    pc,          \* "args", "emitted", "failed", "compiled"
    enabled,     \* the crate features enabled in the build
    compiled     \* the emitted items that survive cfg evaluation

vars == <<args, attributes, input, output, error, pc, enabled, compiled>>

---------------------------------------------------------------------------
(* Bounds of the model *)

MaxArgs == 2
MaxStrLen == 1
MaxAttrs == 1
MaxFields == 2

---------------------------------------------------------------------------
(* Text *)

\* characters the author's string literals are drawn from
Alphabet == {"r", "#"}

\* all sequences over S of length at most n
RECURSIVE SeqsUpTo(_, _)
SeqsUpTo(S, n) ==
    IF n = 0 THEN {<<>>}
    ELSE LET shorter == SeqsUpTo(S, n - 1)
         IN shorter \cup {Append(s, x) : s \in {t \in shorter : Len(t) = n - 1}, x \in S}

Texts == SeqsUpTo(Alphabet, MaxStrLen)

\* t contains s as a contiguous run of characters
Contains(t, s) ==
    \E i \in 0..Len(t) : i + Len(s) <= Len(t) /\ SubSeq(t, i + 1, i + Len(s)) = s

\* the character ` (U+0060), which a TLA+ string literal cannot hold
Backtick == "backtick"

\* Option<T>
None == <<>>
Some(x) == <<x>>

\* the text of the format string up to its first {} (both branches)
DocHead ==
    <<"\n", "#", " ", "A", "v", "a", "i", "l", "a", "b", "i", "l", "i", "t",
      "y", "\n", "\n", "*", "*", "T", "h", "i", "s", " ", "A", "P", "I", " ",
      "i", "s", " ", "m", "a", "r", "k", "e", "d", " ", "a", "s", " ", "u",
      "n", "s", "t", "a", "b", "l", "e", "*", "*", " ", "a", "n", "d", " ",
      "i", "s", " ", "o", "n", "l", "y", " ", "a", "v", "a", "i", "l", "a",
      "b", "l", "e", " ", "w", "h", "e", "n", " ", "t", "h", "e", " ", Backtick>>

\* the text after the first {} that both branches share
DocTail ==
    <<Backtick, " ", "c", "r", "a", "t", "e", " ", "f", "e", "a", "t", "u", "r",
      "e", " ", "i", "s", " ", "e", "n", "a", "b", "l", "e", "d", ".", " ",
      "T", "h", "i", "s", " ", "c", "o", "m", "e", "s", " ", "w", "i", "t",
      "h", " ", "n", "o", " ", "s", "t", "a", "b", "i", "l", "i", "t", "y",
      " ", "g", "u", "a", "r", "a", "n", "t", "e", "e", "s", ",", " ", "a",
      "n", "d", " ", "c", "o", "u", "l", "d", " ", "b", "e", " ", "c", "h",
      "a", "n", "g", "e", "d", " ", "o", "r", " ", "r", "e", "m", "o", "v",
      "e", "d", " ", "a", "t", " ", "a", "n", "y", " ", "t", "i", "m", "e",
      ".">>

\* the text between the two {} of the issue branch
IssueHead ==
    <<"\n", "T", "h", "e", " ", "t", "r", "a", "c", "k", "i", "n", "g", " ",
      "i", "s", "s", "u", "e", " ", "i", "s", ":", " ", Backtick>>

\* the text after the second {} of the issue branch
IssueTail ==
    <<Backtick>>

\* the literal of format!("unstable-{}", name)
UnstableDash ==
    <<"u", "n", "s", "t", "a", "b", "l", "e", "-">>

\* the literal of String::from("unstable")
UnstableBare ==
    <<"u", "n", "s", "t", "a", "b", "l", "e">>

---------------------------------------------------------------------------
(* the syntax tree of syn, as far as the macro touches it *)

\* syn::Visibility: Public, Restricted (pub(crate), pub(super), ...), Inherited
VisPublic == "pub"
VisCrate == "pub(crate)"
VisSuper == "pub(super)"
VisInherited == "inherited"
Visibilities == {VisPublic, VisCrate, VisSuper, VisInherited}

\* the variants of syn::Item the match of lib.rs:116-127 names
MatchedKinds ==
    {"Type", "Enum", "Struct", "Fn", "Mod", "Trait", "Const", "Static", "Use"}

\* the variants of syn::Item that fall to the `_` arm
OtherKinds ==
    {"ExternCrate", "ForeignMod", "Impl", "Macro", "TraitAlias", "Union", "Verbatim"}

ItemKinds == MatchedKinds \cup OtherKinds

\* attributes an annotated item may already carry
InputAttrs ==
    {[path |-> "doc", value |-> <<"r">>], [path |-> "must_use", value |-> <<>>]}

\* only a struct has fields with a visibility of their own
FieldLists(kind) ==
    IF kind = "Struct"
    THEN SeqsUpTo({[vis |-> v] : v \in Visibilities}, MaxFields)
    ELSE {<<>>}

Items ==
    UNION {[kind : {k}, attrs : SeqsUpTo(InputAttrs, MaxAttrs),
            vis : Visibilities, fields : FieldLists(k)] : k \in ItemKinds}

\* one argument `name`, `name = "s"`, `name = 42` or `name = expr`
ArgValues ==
    {[kind |-> "bare", s |-> <<>>], [kind |-> "int", s |-> <<>>],
     [kind |-> "expr", s |-> <<>>]}
    \cup {[kind |-> "str", s |-> t] : t \in Texts}

ArgNames == {"feature", "issue", "since"}

Args == [name : ArgNames, value : ArgValues]

ArgLists == SeqsUpTo(Args, MaxArgs)

---------------------------------------------------------------------------
(* unstable.rs: UnstableAttribute *)

\* #[derive(Default)] struct UnstableAttribute
Default == [feature |-> None, issue |-> None]

\* parse with `_ => panic!()` replaced by an arm that accepts any literal
parse_lenient(self, meta) ==
    IF meta.name \in {"feature", "issue"} /\ meta.value.kind \in {"bare", "expr"}
    THEN [result |-> "Err", self |-> self, consumed |-> FALSE]
    ELSE IF meta.name = "feature" /\ meta.value.kind = "str"
    THEN [result |-> "Ok", self |-> [self EXCEPT !.feature = Some(meta.value.s)],
          consumed |-> TRUE]
    ELSE IF meta.name = "issue" /\ meta.value.kind = "str"
    THEN [result |-> "Ok", self |-> [self EXCEPT !.issue = Some(meta.value.s)],
          consumed |-> TRUE]
    ELSE [result |-> "Ok", self |-> self,
          consumed |-> meta.name \in {"feature", "issue"}]

\* UnstableAttribute::parse, one call of the callback. `consumed` tells
\* whether the callback read the `= value` that follows the name.
parse(self, meta) ==
    IF meta.name = "feature" THEN
        CASE meta.value.kind = "bare" ->   \* meta.value()? : no `=`
                [result |-> "Err", self |-> self, consumed |-> FALSE]
          [] meta.value.kind = "expr" ->   \* .parse()? : not a syn::Lit
                [result |-> "Err", self |-> self, consumed |-> FALSE]
          [] meta.value.kind = "str" ->
                [result |-> "Ok", self |-> [self EXCEPT !.feature = Some(meta.value.s)],
                 consumed |-> TRUE]
          [] OTHER ->                      \* _ => panic!()
                [result |-> "panic", self |-> self, consumed |-> TRUE]
    ELSE IF meta.name = "issue" THEN
        CASE meta.value.kind = "bare" ->
                [result |-> "Err", self |-> self, consumed |-> FALSE]
          [] meta.value.kind = "expr" ->
                [result |-> "Err", self |-> self, consumed |-> FALSE]
          [] meta.value.kind = "str" ->
                [result |-> "Ok", self |-> [self EXCEPT !.issue = Some(meta.value.s)],
                 consumed |-> TRUE]
          [] OTHER ->
                [result |-> "panic", self |-> self, consumed |-> TRUE]
    ELSE [result |-> "Ok", self |-> self, consumed |-> FALSE]

\* crate_feature_name without the "unstable-" prefix
crate_feature_name_bare(self) ==
    IF self.feature # None
    THEN self.feature[1]
    ELSE UnstableBare

\* UnstableAttribute::crate_feature_name
crate_feature_name(self) ==
    IF self.feature # None
    THEN UnstableDash \o self.feature[1]
    ELSE UnstableBare

\* doc_addendum with the issue branch lost
doc_addendum_no_issue(self, feature_name) ==
    DocHead \o feature_name \o DocTail

\* the two format!() calls of expand
doc_addendum(self, feature_name) ==
    IF self.issue # None
    THEN DocHead \o feature_name \o DocTail \o IssueHead \o self.issue[1] \o IssueTail
    ELSE DocHead \o feature_name \o DocTail

\* parse_quote! { #[doc = #doc_addendum] }
DocAttr(text) == [path |-> "doc", value |-> text]

\* #[cfg(feature = #feature_name)]
CfgFeature(feature_name) ==
    [path |-> "cfg", negated |-> FALSE, feature |-> feature_name]

\* the shadow gate with its `not` forgotten
CfgNotFeature_positive(feature_name) ==
    [path |-> "cfg", negated |-> FALSE, feature |-> feature_name]

\* #[cfg(not(feature = #feature_name))]
CfgNotFeature(feature_name) ==
    [path |-> "cfg", negated |-> TRUE, feature |-> feature_name]

\* #[allow(dead_code)]
AllowDeadCode == [path |-> "allow", negated |-> FALSE, feature |-> <<>>]

---------------------------------------------------------------------------
(* unstable.rs: trait ItemLike and its implementations *)

\* is_public taking every explicit `pub...` for public
is_public_any_pub(item) == item.vis # VisInherited

\* ItemLike::is_public
is_public(item) == item.vis = VisPublic

\* push_attr putting the attribute first
push_attr_front(item, attr) == [item EXCEPT !.attrs = <<attr>> \o @]

\* ItemLike::push_attr (the same body in every impl)
push_attr(item, attr) == [item EXCEPT !.attrs = Append(@, attr)]

\* set_visibility of impl_has_visibility!
set_visibility_default(item, visibility) == [item EXCEPT !.vis = visibility]

\* the struct's set_visibility without the cascade into its fields
set_visibility_struct_no_cascade(item, visibility) ==
    [item EXCEPT !.vis = visibility]

\* set_visibility of impl ItemLike for syn::ItemStruct
set_visibility_struct(item, visibility) ==
    [item EXCEPT
        !.fields = [i \in DOMAIN @ |->
                       IF @[i].vis = VisPublic
                       THEN [@[i] EXCEPT !.vis = visibility]
                       ELSE @[i]],
        !.vis = visibility]

\* static dispatch of set_visibility on the item's type
set_visibility(item, visibility) ==
    IF item.kind = "Struct"
    THEN set_visibility_struct(item, visibility)
    ELSE set_visibility_default(item, visibility)

---------------------------------------------------------------------------
(* unstable.rs: UnstableAttribute::expand *)

\* expand with hidden_item an alias of item instead of a clone: the
\* downgrade shows in both emitted items
expand_aliased(self, item) ==
    IF is_public(item)
    THEN LET feature_name == crate_feature_name(self)
             documented == push_attr(item, DocAttr(doc_addendum(self, feature_name)))
             hidden_item == set_visibility(documented, VisCrate)
         IN  << [outer |-> <<CfgFeature(feature_name)>>, item |-> hidden_item],
                [outer |-> <<CfgNotFeature(feature_name), AllowDeadCode>>,
                 item |-> hidden_item] >>
    ELSE << [outer |-> <<>>, item |-> item] >>

\* The returned token stream: the items in order, each with the outer
\* attributes quote! wrote before it. `item.clone()` is a deep copy, and a
\* TLA+ value is never shared, so hidden_item is its own value.
expand(self, item) ==
    IF is_public(item)
    THEN LET feature_name == crate_feature_name(self)
             documented == push_attr(item, DocAttr(doc_addendum(self, feature_name)))
             hidden_item == set_visibility(documented, VisCrate)
         IN  << [outer |-> <<CfgFeature(feature_name)>>, item |-> documented],
                [outer |-> <<CfgNotFeature(feature_name), AllowDeadCode>>,
                 item |-> hidden_item] >>
    ELSE << [outer |-> <<>>, item |-> item] >>

---------------------------------------------------------------------------
(* lib.rs: the entry point *)

\* the match with its last arm, Item::Use, missing
Dispatch_no_use(self, item) ==
    IF item.kind \in {"Type", "Enum", "Struct", "Fn", "Mod", "Trait", "Const", "Static"}
    THEN [ok |-> TRUE, tokens |-> expand(self, item)]
    ELSE [ok |-> FALSE, tokens |-> <<>>]

\* the match of lib.rs:116-127
Dispatch(self, item) ==
    CASE item.kind = "Type"   -> [ok |-> TRUE, tokens |-> expand(self, item)]
      [] item.kind = "Enum"   -> [ok |-> TRUE, tokens |-> expand(self, item)]
      [] item.kind = "Struct" -> [ok |-> TRUE, tokens |-> expand(self, item)]
      [] item.kind = "Fn"     -> [ok |-> TRUE, tokens |-> expand(self, item)]
      [] item.kind = "Mod"    -> [ok |-> TRUE, tokens |-> expand(self, item)]
      [] item.kind = "Trait"  -> [ok |-> TRUE, tokens |-> expand(self, item)]
      [] item.kind = "Const"  -> [ok |-> TRUE, tokens |-> expand(self, item)]
      [] item.kind = "Static" -> [ok |-> TRUE, tokens |-> expand(self, item)]
      [] item.kind = "Use"    -> [ok |-> TRUE, tokens |-> expand(self, item)]
      [] OTHER                -> [ok |-> FALSE, tokens |-> <<>>]  \* panic!

\* whether rustc keeps an emitted item under the enabled crate features
CfgActive(piece, features) ==
    \A i \in DOMAIN piece.outer :
        piece.outer[i].path = "cfg" =>
            IF piece.outer[i].negated
            THEN piece.outer[i].feature \notin features
            ELSE piece.outer[i].feature \in features

\* the feature names a build may switch on: the annotation's own flag and
\* the catch-all one
BuildFeatures(self) == {crate_feature_name(self), UnstableBare}

Init ==
    /\ args \in ArgLists
    /\ attributes = Default
    /\ input = None
    /\ output = <<>>
    /\ error = "none"
    /\ pc = "args"
    /\ enabled = {}
    /\ compiled = <<>>

\* One round of syn::meta::parser's loop (lib.rs:113-114): the callback is
\* called on the next argument; an Err or a panic ends the macro; after an
\* Ok the parser wants a `,` or the end, so a value the callback left
\* unread is an error ("expected `,`").
ParseNestedMeta ==
    /\ pc = "args"
    /\ args # <<>>
    /\ LET meta == Head(args)
           r == parse(attributes, meta)
       IN  IF r.result = "panic"
           THEN /\ pc' = "failed"
                /\ error' = "panic"
                /\ UNCHANGED <<args, attributes>>
           ELSE IF r.result = "Err" \/ (~r.consumed /\ meta.value.kind # "bare")
           THEN /\ pc' = "failed"
                /\ error' = "compile_error"
                /\ UNCHANGED <<args, attributes>>
           ELSE /\ attributes' = r.self
                /\ args' = Tail(args)
                /\ UNCHANGED <<pc, error>>
    /\ UNCHANGED <<input, output, enabled, compiled>>

\* lib.rs:116-127, once the arguments are parsed: parse the item, match on
\* its variant, expand it.
Unstable ==
    /\ pc = "args"
    /\ args = <<>>
    /\ \E item \in Items :
          LET r == Dispatch(attributes, item)
          IN  /\ input' = Some(item)
              /\ IF r.ok
                 THEN /\ output' = r.tokens
                      /\ pc' = "emitted"
                      /\ error' = "none"
                 ELSE /\ output' = <<>>
                      /\ pc' = "failed"
                      /\ error' = "panic"
    /\ UNCHANGED <<args, attributes, enabled, compiled>>

\* The host compiler builds the crate with some set of features enabled
\* and keeps the items whose cfg gates hold.
CfgStrip ==
    /\ pc = "emitted"
    /\ \E features \in SUBSET BuildFeatures(attributes) :
          /\ enabled' = features
          /\ compiled' = SelectSeq(output, LAMBDA piece : CfgActive(piece, features))
    /\ pc' = "compiled"
    /\ UNCHANGED <<args, attributes, input, output, error>>

Next == ParseNestedMeta \/ Unstable \/ CfgStrip

Spec == Init /\ [][Next]_vars

---------------------------------------------------------------------------
(* Properties *)

\* the macro returned a token stream for the parsed item
Emitted == pc \in {"emitted", "compiled"}

\* the macro returned the two variants of a public item
Rewritten == Emitted /\ input[1].vis = VisPublic

\* the value of the last attribute of the visible variant
VisibleDoc == output[1].item.attrs[Len(output[1].item.attrs)].value

\* C1: a declaration whose own visibility is not Public is returned
\* unchanged: one item, equal to the input in attributes, visibility and
\* field visibilities, with no gate, no allow and no documentation added.
C1_NonPublicUnchanged ==
    (Emitted /\ input[1].vis # VisPublic) =>
        /\ Len(output) = 1
        /\ output[1].outer = <<>>
        /\ output[1].item.attrs = input[1].attrs
        /\ output[1].item.vis = input[1].vis
        /\ output[1].item.fields = input[1].fields
        /\ output[1].item = input[1]

C1_Witness ==
    /\ pc = "emitted"
    /\ input[1].kind = "Struct"
    /\ input[1].vis = VisCrate
    /\ input[1].fields = <<[vis |-> VisPublic] >>
    /\ attributes.feature # None
    /\ attributes.issue # None
    /\ output = << [outer |-> <<>>, item |-> input[1]] >>

\* C2: a Public declaration is emitted as two variants gated on the same
\* flag; under every set of enabled features the visible variant is kept
\* exactly when the flag is enabled and the shadow variant exactly when it
\* is not, so the build keeps exactly one of them.
C2_ExactlyOneVariant ==
    Rewritten =>
        /\ Len(output) = 2
        /\ output[1].outer[1].path = "cfg"
        /\ output[2].outer[1].path = "cfg"
        /\ output[1].outer[1].feature = output[2].outer[1].feature
        /\ LET flag == output[1].outer[1].feature
           IN  /\ \A features \in SUBSET BuildFeatures(attributes) :
                     /\ CfgActive(output[1], features) <=> flag \in features
                     /\ CfgActive(output[2], features) <=> flag \notin features
               /\ pc = "compiled" =>
                     /\ Len(compiled) = 1
                     /\ flag \in enabled => compiled = <<output[1] >>
                     /\ flag \notin enabled => compiled = <<output[2] >>

C2_Witness ==
    /\ pc = "compiled"
    /\ input[1].vis = VisPublic
    /\ attributes.feature = Some(<<"r">>)
    /\ enabled = {UnstableBare}
    /\ compiled = <<output[2] >>
    /\ output[2].item.vis = VisCrate

\* C3: for a Public declaration the flag named in the gate of the visible
\* variant, in the gate of the shadow variant and in the documentation is
\* "unstable-" followed by F when feature is F (the empty string included)
\* and "unstable" when feature is absent.
C3_FlagName ==
    Rewritten =>
        LET expected ==
                IF attributes.feature = None
                THEN <<"u", "n", "s", "t", "a", "b", "l", "e">>
                ELSE <<"u", "n", "s", "t", "a", "b", "l", "e", "-">>
                     \o attributes.feature[1]
        IN  /\ output[1].outer[1].feature = expected
            /\ output[2].outer[1].feature = expected
            /\ Contains(VisibleDoc, <<Backtick>> \o expected \o <<Backtick>>)

C3_Witness ==
    /\ pc = "emitted"
    /\ input[1].vis = VisPublic
    /\ attributes.feature = Some(<<>>)
    /\ output[1].outer[1].feature = UnstableDash
    /\ output[2].outer[1].feature = UnstableDash

\* C4: the shadow variant of a Public struct has visibility pub(crate),
\* every field that was Public in the input has pub(crate), every other
\* field keeps its visibility, and so no field of the shadow is Public.
C4_StructCascade ==
    (Rewritten /\ input[1].kind = "Struct") =>
        LET shadow == output[2].item
        IN  /\ shadow.vis = VisCrate
            /\ Len(shadow.fields) = Len(input[1].fields)
            /\ \A i \in DOMAIN input[1].fields :
                  /\ input[1].fields[i].vis = VisPublic => shadow.fields[i].vis = VisCrate
                  /\ input[1].fields[i].vis # VisPublic =>
                        shadow.fields[i] = input[1].fields[i]
                  /\ shadow.fields[i].vis # VisPublic

C4_Witness ==
    /\ pc = "emitted"
    /\ input[1].kind = "Struct"
    /\ input[1].vis = VisPublic
    /\ input[1].fields = <<[vis |-> VisPublic], [vis |-> VisSuper] >>
    /\ output[2].item.fields = <<[vis |-> VisCrate], [vis |-> VisSuper] >>

\* C5: the downgrade of the shadow variant leaves the visible variant
\* alone: it is still Public and its fields have the input's visibilities.
C5_VisibleUntouched ==
    Rewritten =>
        /\ output[1].item.vis = VisPublic
        /\ output[1].item.fields = input[1].fields
        /\ output[1].item.kind = input[1].kind

C5_Witness ==
    /\ pc = "emitted"
    /\ input[1].kind = "Struct"
    /\ input[1].vis = VisPublic
    /\ input[1].fields = <<[vis |-> VisPublic], [vis |-> VisInherited] >>
    /\ output[1].item.fields = input[1].fields
    /\ output[2].item.fields # input[1].fields

\* the start of the tracking-issue line, up to the quoted reference
TrackingIssueLabel == SubSeq(IssueHead, 1, Len(IssueHead) - 1)

\* C6: the documentation of a Public declaration names the flag, quoted,
\* and has a tracking-issue line exactly when issue is present; that line
\* holds the issue text verbatim.
C6_DocContents ==
    Rewritten =>
        /\ Contains(VisibleDoc,
                    <<Backtick>> \o output[1].outer[1].feature \o <<Backtick>>)
        /\ attributes.issue # None <=> Contains(VisibleDoc, TrackingIssueLabel)
        /\ attributes.issue # None =>
              Contains(VisibleDoc,
                       TrackingIssueLabel \o <<Backtick>> \o attributes.issue[1]
                       \o <<Backtick>>)

C6_Witness ==
    /\ pc = "emitted"
    /\ input[1].vis = VisPublic
    /\ input[1].kind = "Fn"
    /\ attributes.feature = Some(<<"r">>)
    /\ attributes.issue = Some(<<"#">>)
    /\ Contains(VisibleDoc, <<":", " ", Backtick, "#", Backtick>>)

\* C7 (as claimed): an argument whose name is neither `feature` nor `issue`
\* is silently accepted, bare or bound to a value: reading it never ends
\* the parse in an error and leaves feature and issue as they were.
C7_UnknownArgAccepted ==
    [][(pc = "args" /\ args # <<>> /\ Head(args).name \notin {"feature", "issue"}) =>
          (pc' = "args" /\ error' = "none" /\ attributes' = attributes)]_vars

\* a recognized argument bound to something that is not a string literal
Malformed(a) ==
    a.name \in {"feature", "issue"} /\ a.value.kind \in {"int", "expr"}

\* such an argument is among those yet to be read
HasMalformed == \E i \in DOMAIN args : Malformed(args[i])

\* C8: a recognized argument bound to a non-string value makes the macro
\* fail and emit no declaration: the parser never gets past it, reaching it
\* ends the macro in an error, and while it is there nothing is emitted or
\* compiled, whatever the other arguments and whatever the item.
C8_MalformedIsFatal ==
    /\ [](HasMalformed =>
            /\ pc \in {"args", "failed"}
            /\ input = None
            /\ output = <<>>
            /\ compiled = <<>>)
    /\ [][HasMalformed => HasMalformed']_vars
    /\ [][(pc = "args" /\ args # <<>> /\ Malformed(Head(args))) =>
            (pc' = "failed" /\ error' \in {"panic", "compile_error"})]_vars

C8_Witness ==
    /\ pc = "failed"
    /\ error = "panic"
    /\ Len(args) = 1
    /\ args[1].name = "feature"
    /\ args[1].value.kind = "int"
    /\ attributes.issue = Some(<<"#">>)
    /\ output = <<>>

\* the kinds of item the dispatch hands to expand
SupportedKinds ==
    {k \in ItemKinds :
        Dispatch(Default, [kind |-> k, attrs |-> <<>>, vis |-> VisInherited,
                           fields |-> <<>>]).ok}

\* C9 (as claimed): the dispatch accepts a fixed set of exactly eight
\* shapes.
C9_EightShapes ==
    input # None => Cardinality(SupportedKinds) = 8

\* C9 (amended): the dispatch accepts exactly the nine shapes Type, Enum,
\* Struct, Fn, Mod, Trait, Const, Static and Use, each rewritten by expand;
\* any other shape is a fatal error with nothing emitted.
C9_NineShapes ==
    /\ Cardinality(SupportedKinds) = 9
    /\ input # None =>
          IF input[1].kind \in {"Type", "Enum", "Struct", "Fn", "Mod", "Trait",
                                "Const", "Static", "Use"}
          THEN /\ Emitted
               /\ error = "none"
               /\ output = expand(attributes, input[1])
          ELSE /\ pc = "failed"
               /\ error = "panic"
               /\ output = <<>>
               /\ compiled = <<>>

C9_Witness ==
    /\ pc = "emitted"
    /\ input[1].kind = "Use"
    /\ input[1].vis = VisPublic
    /\ Len(output) = 2

=============================================================================
